---- MODULE Spec2Model ----
(***************************************************************************)
(* Model of the reqwest_native transport of httpx:                         *)
(*   - NativeAsyncClient   (async_client.rs): construction, request(),     *)
(*     the admission gate (a tokio Semaphore) and close();                 *)
(*   - NativeAsyncResponse (async_response.rs): __anext__, close(), Drop;  *)
(*   - TraceMiddleware     (trace.rs): handle() with its two hooks.        *)
(* Every request is a task; a step of the model is the code a task runs    *)
(* between two suspension points (.await), or one synchronous host call.   *)
(***************************************************************************)
EXTENDS Integers, Sequences, FiniteSets, TLC

\* ---------------------------------------------------------------- bounds
NumRequests == 2        \* request tasks issued on the one Client
MaxConnections == 2     \* largest max_connections tried at construction
MaxChunks == 1          \* data chunks a response body holds at most
MaxCloses == 2          \* close() calls made on one Response at most
NumPullers == 2         \* concurrent __anext__ calls on one Response at most
MaxStreams == 1         \* Responses whose body the host iterates at most
NumHandles == 1         \* requests passed through TraceMiddleware::handle

Requests == 1..NumRequests

\* Option<T>: None is the empty set, Some(x) the singleton.
None == {}
Some(x) == {x}
Unwrap(o) == CHOOSE x \in o : TRUE

VARIABLES
  construct,          \* outcome of NativeAsyncClient::py_new: "Ok" | "ValueError: ..."
  client,             \* NativeAsyncClient.client : Option<Client>
  request_semaphore,  \* NativeAsyncClient.request_semaphore : Option<capacity>
  connect_timeout,    \* NativeAsyncClient.connect_timeout is Some(_)
  permits,            \* Semaphore: permits available now
  waiters,            \* Semaphore: FIFO queue of the tasks suspended in acquire_owned()
  client_closed,      \* a NativeAsyncClient::close() call has completed
  req,                \* per request task: position, locals, result
  resp                \* per request: the NativeAsyncResponse it produced

clientVars == <<construct, client, request_semaphore, connect_timeout,
                permits, waiters, client_closed, req, resp>>

VARIABLES
  tracer,             \* TraceMiddleware.tracer : Option<observer>
  tr                  \* per handle() call: position, locals, what the observer saw

traceVars == <<tracer, tr>>

VARIABLES
  gil                 \* the host's execution lock (Python GIL): Option<the task in with_gil>

vars == <<clientVars, traceVars, gil>>

\* The tasks of the runtime that enter Python::with_gil.
RequestTask(r) == [kind |-> "request", id |-> r, call |-> 0]
AnextTask(r, p) == [kind |-> "anext", id |-> r, call |-> p]
HandleTask(t) == [kind |-> "handle", id |-> t, call |-> 0]

\* ------------------------------------------------------- inputs (bounded)
\* Method strings: Method::from_bytes accepts exactly the non-empty tokens.
Methods == {"GET", "", "G T"}
TokenMethods == {"GET"}
\* URL strings, with the scheme Url::parse finds (None: the string does not parse).
Urls == {"http://h/", "https://h/", "ftp://h/", "//nourl"}
\* Header lists, by what HeaderName/HeaderValue::from_bytes make of them.
HeaderLists == {"none", "wire_safe", "bad_key", "bad_value"}
\* content: absent, PyBytes, an async iterator, an object that is no async iterator.
Contents == {"none", "bytes", "stream", "not_iterable"}
\* reqwest::Error as the two predicates the code reads of it.
TransportErrors == [is_connect : BOOLEAN, is_timeout : BOOLEAN]
\* reqwest::Version values; "Other" stands for any value outside the five constants.
Versions == {"HTTP_09", "HTTP_10", "HTTP_11", "HTTP_2", "HTTP_3", "Other"}
Pullers == 1..NumPullers

\* ------------------------------------------------------- pure functions
parse_method(method) ==
  IF method \in TokenMethods THEN "Ok" ELSE "BadMethodError"

url_scheme(url) ==
  CASE url = "http://h/"  -> Some("http")
    [] url = "https://h/" -> Some("https")
    [] url = "ftp://h/"   -> Some("ftp")
    [] OTHER              -> None

parse_url(url) ==
  IF url_scheme(url) = None THEN "BadUrlError" ELSE "Ok"

map_send_error(error) ==
  IF error.is_connect THEN "SendConnectionError"
  ELSE IF error.is_timeout THEN "SendTimeoutError"
  ELSE "SendUnknownError"

\* Mutant of map_read_error: the timeout test comes first.
map_read_error_timeout_first(error) ==
  IF error.is_timeout THEN "ReadTimeoutError"
  ELSE IF error.is_connect THEN "ReadConnectionError"
  ELSE "ReadUnknownError"

map_read_error(error) ==
  IF error.is_connect THEN "ReadConnectionError"
  ELSE IF error.is_timeout THEN "ReadTimeoutError"
  ELSE "ReadUnknownError"

\* NativeAsyncResponse::http_version_str: Some(string), or None for the Err arm.
response_http_version_str(version) ==
  CASE version = "HTTP_09" -> Some("HTTP/0.9")
    [] version = "HTTP_10" -> Some("HTTP/1.0")
    [] version = "HTTP_11" -> Some("HTTP/1.1")
    [] version = "HTTP_2"  -> Some("HTTP/2")
    [] version = "HTTP_3"  -> Some("HTTP/3")
    [] OTHER               -> None

\* Mutant of py_new: max_connections is not looked at before the Semaphore is made.
py_new_accepts_zero(http1, http2, max_connections, connect_timeout_arg) ==
  IF ~http1 /\ ~http2
    THEN [result |-> "ValueError: http1 or http2", client |-> None,
          request_semaphore |-> None, connect_timeout |-> FALSE]
  ELSE [result |-> "Ok", client |-> Some("transport"),
        request_semaphore |-> max_connections,
        connect_timeout |-> connect_timeout_arg]

\* NativeAsyncClient::py_new: the fields of the Client it returns, or the error.
py_new(http1, http2, max_connections, connect_timeout_arg) ==
  IF ~http1 /\ ~http2
    THEN [result |-> "ValueError: http1 or http2", client |-> None,
          request_semaphore |-> None, connect_timeout |-> FALSE]
  ELSE IF max_connections = Some(0)
    THEN [result |-> "ValueError: max_connections", client |-> None,
          request_semaphore |-> None, connect_timeout |-> FALSE]
  ELSE [result |-> "Ok", client |-> Some("transport"),
        request_semaphore |-> max_connections,
        connect_timeout |-> connect_timeout_arg]

\* ------------------------------------------------------- initial state
NewRequest ==
  [pc |-> "idle", headers |-> "none", body |-> "none", permit |-> FALSE,
   result |-> "none", dispatched |-> FALSE, waited |-> FALSE, acquired |-> 0,
   released |-> 0]

NoResponse ==
  [state |-> "none", response |-> None, permit |-> FALSE, body |-> 0,
   eos |-> FALSE, lock |-> None, pull |-> [p \in Pullers |-> "idle"],
   last |-> "none", closes |-> 0]

ClientInit ==
  \E http1 \in BOOLEAN, http2 \in BOOLEAN, ct \in BOOLEAN,
     max_connections \in {None} \cup {Some(n) : n \in 0..MaxConnections} :
    LET c == py_new(http1, http2, max_connections, ct) IN
      /\ construct = c.result
      /\ client = c.client
      /\ request_semaphore = c.request_semaphore
      /\ connect_timeout = c.connect_timeout
      /\ permits = IF c.request_semaphore = None THEN 0 ELSE Unwrap(c.request_semaphore)
      /\ waiters = <<>>
      /\ client_closed = FALSE
      /\ req = [r \in Requests |-> NewRequest]
      /\ resp = [r \in Requests |-> NoResponse]
      /\ gil = None

\* ------------------------------------------------------- the admission gate
\* tokio::sync::Semaphore as the code uses it.  A gate state is a record
\* [req, waiters, permits]; the operators below return the gate state after the call.
Gate == [req |-> req, waiters |-> waiters, permits |-> permits]

Remove(q, r) == SelectSeq(q, LAMBDA x : x # r)

\* The task at the head of the queue is handed one permit: its acquire_owned()
\* is complete, and limit_connections returns Ok(permit) to request's async block.
Grant(g, w) ==
  [g EXCEPT !.req[w].pc = "admitted", !.req[w].permit = TRUE,
            !.req[w].acquired = @ + 1]

\* Mutant of acquire_owned: a permit is issued without looking at the count.
acquire_owned_unchecked(g, r) ==
  Grant([g EXCEPT !.permits = @ - 1], r)

\* request_semaphore.acquire_owned() polled by task r: a free permit is taken at
\* once, otherwise the task joins the queue and suspends.
acquire_owned(g, r) ==
  IF g.permits > 0
    THEN Grant([g EXCEPT !.permits = @ - 1], r)
    ELSE [g EXCEPT !.waiters = Append(@, r), !.req[r].pc = "waiting",
                   !.req[r].waited = TRUE]

\* Mutant of drop_permit: the permit goes back to the count and no waiter is woken.
drop_permit_lost_wakeup(g, r) ==
  [g EXCEPT !.req[r].released = @ + 1, !.permits = @ + 1]

\* drop(OwnedSemaphorePermit) of the permit issued to request r: the permit goes
\* to the longest-waiting task, or back to the count when nobody waits.
drop_permit(g, r) ==
  LET g1 == [g EXCEPT !.req[r].released = @ + 1] IN
    IF g1.waiters # <<>>
      THEN Grant([g1 EXCEPT !.waiters = Tail(@)], Head(g1.waiters))
      ELSE [g1 EXCEPT !.permits = @ + 1]

SetGate(g) ==
  /\ req' = g.req
  /\ waiters' = g.waiters
  /\ permits' = g.permits

\* Mutant of FailRequest: the error exit forgets the permit without dropping it.
FailRequest_leaks_permit(g, r, error) ==
  [g EXCEPT !.req[r].pc = "failed", !.req[r].result = error,
            !.req[r].permit = FALSE, !.req[r].headers = "none", !.req[r].body = "none"]

\* An error leaves request's async block with `?`: the local `permit`
\* (Option<OwnedSemaphorePermit>) is dropped as the block unwinds.
FailRequest(g, r, error) ==
  LET g1 == [g EXCEPT !.req[r].pc = "failed", !.req[r].result = error,
                      !.req[r].permit = FALSE, !.req[r].headers = "none", !.req[r].body = "none"] IN
    IF g.req[r].permit THEN drop_permit(g1, r) ELSE g1

\* ------------------------------------------------------- NativeAsyncClient
\* request(), the synchronous part (lines 118-148): the error it returns, or "Ok"
\* when the future is handed to the runtime.
request_sync(method, url, content) ==
  IF client = None THEN "RuntimeError: Client is not initialized"
  ELSE IF parse_method(method) # "Ok" THEN parse_method(method)
  ELSE IF parse_url(url) # "Ok" THEN parse_url(url)
  ELSE IF url_scheme(url) \notin {Some("http"), Some("https")}
    THEN "BadUrlError"
  ELSE IF content = "not_iterable" THEN "TypeError"
  ELSE "Ok"

\* Mutant of request: the body is built in the async block, once the permit is held.
request_body_after_admission(r) ==
  /\ construct = "Ok"
  /\ gil = None
  /\ req[r].pc = "idle"
  /\ \E method \in Methods, url \in Urls, headers \in HeaderLists, content \in Contents :
       LET res == request_sync(method, url, content) IN
         IF res = "TypeError" /\ permits > 0
           THEN SetGate(FailRequest(acquire_owned(Gate, r), r, res))
           ELSE /\ req' = [req EXCEPT ![r] =
                             IF res = "Ok"
                               THEN [@ EXCEPT !.pc = "spawned", !.headers = headers,
                                           !.body = IF content = "stream" THEN "stream"
                                                    ELSE "none"]
                               ELSE [@ EXCEPT !.pc = "failed", !.result = res]]
                /\ UNCHANGED <<permits, waiters>>
  /\ UNCHANGED <<traceVars, gil>>
  /\ UNCHANGED <<construct, client, request_semaphore, connect_timeout,
                 client_closed, resp>>

request(r) ==
  /\ construct = "Ok"
  /\ gil = None
  /\ req[r].pc = "idle"
  /\ \E method \in Methods, url \in Urls, headers \in HeaderLists, content \in Contents :
       LET res == request_sync(method, url, content) IN
         req' = [req EXCEPT ![r] =
                   IF res = "Ok"
                     THEN [@ EXCEPT !.pc = "spawned", !.headers = headers,
                                           !.body = IF content = "stream" THEN "stream"
                                                    ELSE "none"]
                     ELSE [@ EXCEPT !.pc = "failed", !.result = res]]
  /\ UNCHANGED <<traceVars, gil>>
  /\ UNCHANGED <<construct, client, request_semaphore, connect_timeout,
                 permits, waiters, client_closed, resp>>

\* The async block's first poll (lines 151-155) with limit_connections (207-219).
limit_connections(r) ==
  /\ req[r].pc = "spawned"
  /\ IF request_semaphore = None
       THEN /\ req' = [req EXCEPT ![r].pc = "admitted"]
            /\ UNCHANGED <<waiters, permits>>
       ELSE SetGate(acquire_owned(Gate, r))
  /\ UNCHANGED <<traceVars, gil>>
  /\ UNCHANGED <<construct, client, request_semaphore, connect_timeout,
                 client_closed, resp>>

\* Mutant of pool_timeout: the timed-out task stays in the semaphore's queue.
pool_timeout_stays_queued(r) ==
  /\ req[r].pc = "waiting"
  /\ connect_timeout
  /\ SetGate(FailRequest(Gate, r, "PoolTimeoutError"))
  /\ UNCHANGED <<traceVars, gil>>
  /\ UNCHANGED <<construct, client, request_semaphore, connect_timeout,
                 client_closed, resp>>

\* tokio::time::timeout elapses around a suspended acquire_owned(): the Acquire
\* future is dropped, which takes the task off the queue (lines 211-214).
pool_timeout(r) ==
  /\ req[r].pc = "waiting"
  /\ connect_timeout
  /\ SetGate(FailRequest([Gate EXCEPT !.waiters = Remove(@, r)], r, "PoolTimeoutError"))
  /\ UNCHANGED <<traceVars, gil>>
  /\ UNCHANGED <<construct, client, request_semaphore, connect_timeout,
                 client_closed, resp>>

\* Lines 157-180: the request is assembled and handed to client.execute().
build_request(r) ==
  /\ req[r].pc = "admitted"
  /\ \E build_ok \in BOOLEAN :
       IF req[r].headers = "bad_key"
         THEN SetGate(FailRequest(Gate, r, "BadHeaderError: Invalid header key"))
       ELSE IF req[r].headers = "bad_value"
         THEN SetGate(FailRequest(Gate, r, "BadHeaderError: Invalid header value"))
       ELSE IF ~build_ok
         THEN SetGate(FailRequest(Gate, r, "RuntimeError: Invalid request"))
       ELSE /\ req' = [req EXCEPT ![r].pc = "executing", ![r].dispatched = TRUE,
                                  ![r].headers = "none"]
            /\ UNCHANGED <<waiters, permits>>
  /\ UNCHANGED <<traceVars, gil>>
  /\ UNCHANGED <<construct, client, request_semaphore, connect_timeout,
                 client_closed, resp>>

\* NativeAsyncResponse::new(response, permit) (async_response.rs 30-46): the fields
\* of the new Response; the permit moves into it.
NativeAsyncResponse_new(chunks, permit) ==
  [state |-> "live", response |-> Some("cursor"), permit |-> permit,
   body |-> chunks, eos |-> FALSE, lock |-> None,
   pull |-> [p \in Pullers |-> "idle"], last |-> "none", closes |-> 0]

\* While client.execute() sends a streamed body, the Transport polls the stream
\* of line 139: for the chunk the host's iterator produced, the closure of line
\* 140 enters Python::with_gil, which the thread does as soon as the lock is free.
body_stream_next(r) ==
  /\ req[r].pc = "executing"
  /\ req[r].body = "stream"
  /\ gil = None
  /\ gil' = Some(RequestTask(r))
  /\ req' = [req EXCEPT ![r].pc = "extracting"]
  /\ UNCHANGED traceVars
  /\ UNCHANGED <<construct, client, request_semaphore, connect_timeout,
                 permits, waiters, client_closed, resp>>

\* chunk.extract::<Vec<u8>>(py) returns (line 140) and the host lock is released;
\* the bytes, or the error, go to the Transport, which sends on.  The host's
\* iterator is taken to produce one chunk.
body_stream_extract(r) ==
  /\ req[r].pc = "extracting"
  /\ gil' = None
  /\ req' = [req EXCEPT ![r].pc = "executing", ![r].body = "none"]
  /\ UNCHANGED traceVars
  /\ UNCHANGED <<construct, client, request_semaphore, connect_timeout,
                 permits, waiters, client_closed, resp>>

\* client.execute(request).await fails (lines 178-181).
execute_err(r) ==
  /\ req[r].pc = "executing"
  /\ \E error \in TransportErrors :
       SetGate(FailRequest(Gate, r, map_send_error(error)))
  /\ UNCHANGED <<traceVars, gil>>
  /\ UNCHANGED <<construct, client, request_semaphore, connect_timeout,
                 client_closed, resp>>

\* Mutant of execute_ok: the Response gets the permit and the task keeps it too.
execute_ok_shares_permit(r) ==
  /\ req[r].pc = "executing"
  /\ \E version \in Versions, chunks \in 0..MaxChunks :
       IF response_http_version_str(version) = None
         THEN /\ SetGate(FailRequest(Gate, r, "RuntimeError: Unknown HTTP version"))
              /\ UNCHANGED resp
         ELSE /\ req' = [req EXCEPT ![r].pc = "done", ![r].result = "Response",
                                    ![r].body = "none"]
              /\ resp' = [resp EXCEPT ![r] = NativeAsyncResponse_new(chunks, req[r].permit)]
              /\ UNCHANGED <<waiters, permits>>
  /\ UNCHANGED <<traceVars, gil>>
  /\ UNCHANGED <<construct, client, request_semaphore, connect_timeout, client_closed>>

\* client.execute(request).await succeeds and the Response is built (line 183).
\* When http_version_str fails, NativeAsyncResponse::new returns Err and its
\* parameter request_semaphore_permit is dropped with it.
execute_ok(r) ==
  /\ req[r].pc = "executing"
  /\ \E version \in Versions, chunks \in 0..MaxChunks :
       IF response_http_version_str(version) = None
         THEN /\ SetGate(FailRequest(Gate, r, "RuntimeError: Unknown HTTP version"))
              /\ UNCHANGED resp
         ELSE /\ req' = [req EXCEPT ![r].pc = "done", ![r].result = "Response",
                                    ![r].permit = FALSE, ![r].body = "none"]
              /\ resp' = [resp EXCEPT ![r] = NativeAsyncResponse_new(chunks, req[r].permit)]
              /\ UNCHANGED <<waiters, permits>>
  /\ UNCHANGED <<traceVars, gil>>
  /\ UNCHANGED <<construct, client, request_semaphore, connect_timeout, client_closed>>

\* Mutant of cancel: the future's locals are forgotten, not dropped.
cancel_forgets_locals(r) ==
  /\ req[r].pc \in {"spawned", "waiting", "admitted", "executing"}
  /\ req' = [req EXCEPT ![r].pc = "cancelled", ![r].result = "CancelledError",
                        ![r].permit = FALSE, ![r].headers = "none", ![r].body = "none"]
  /\ UNCHANGED <<waiters, permits>>
  /\ UNCHANGED <<traceVars, gil>>
  /\ UNCHANGED <<construct, client, request_semaphore, connect_timeout,
                 client_closed, resp>>

\* The host cancels the awaitable: the runtime drops the future at its suspension
\* point, with the locals it holds (the Acquire future, or the permit).
cancel(r) ==
  /\ req[r].pc \in {"spawned", "waiting", "admitted", "executing"}
  /\ LET g == [Gate EXCEPT !.waiters = Remove(@, r), !.req[r].pc = "cancelled",
                           !.req[r].result = "CancelledError", !.req[r].permit = FALSE,
                           !.req[r].headers = "none", !.req[r].body = "none"] IN
       SetGate(IF req[r].permit THEN drop_permit(g, r) ELSE g)
  /\ UNCHANGED <<traceVars, gil>>
  /\ UNCHANGED <<construct, client, request_semaphore, connect_timeout,
                 client_closed, resp>>

\* NativeAsyncClient::close (lines 187-193): the future takes the Client out of a
\* clone of self.client; self.client itself is not assigned.
client_close ==
  /\ construct = "Ok"
  /\ gil = None
  /\ client_closed' = TRUE
  /\ client' = client
  /\ UNCHANGED <<traceVars, gil>>
  /\ UNCHANGED <<construct, request_semaphore, connect_timeout, permits, waiters,
                 req, resp>>

\* ------------------------------------------------------- NativeAsyncResponse
\* __anext__, the synchronous part (lines 56-60): self.response is cloned, and the
\* call fails when it is None; otherwise the pull future is handed to the runtime.
\* The Responses the host has started to iterate.
Streamed == {q \in Requests : resp[q].last # "none" \/ \E p \in Pullers : resp[q].pull[p] # "idle"}

anext(r, p) ==
  /\ resp[r].state = "live"
  /\ gil = None
  /\ resp[r].pull[p] = "idle"
  /\ r \in Streamed \/ Cardinality(Streamed) < MaxStreams
  /\ resp' = [resp EXCEPT ![r] =
                IF @.response = None
                  THEN [@ EXCEPT !.last = "RuntimeError: Response is not initialized"]
                  ELSE [@ EXCEPT !.pull[p] = "locking", !.last = "pending"]]
  /\ UNCHANGED <<traceVars, gil>>
  /\ UNCHANGED <<construct, client, request_semaphore, connect_timeout,
                 permits, waiters, client_closed, req>>

\* Mutant of anext_lock: the pull future goes on to chunk() without the Mutex.
anext_lock_unguarded(r, p) ==
  /\ resp[r].pull[p] = "locking"
  /\ resp' = [resp EXCEPT ![r].lock = Some(p), ![r].pull[p] = "pulling"]
  /\ UNCHANGED <<traceVars, gil>>
  /\ UNCHANGED <<construct, client, request_semaphore, connect_timeout,
                 permits, waiters, client_closed, req>>

\* response.lock().await (line 62): the pull future takes the cursor's Mutex.
anext_lock(r, p) ==
  /\ resp[r].pull[p] = "locking"
  /\ resp[r].lock = None
  /\ resp' = [resp EXCEPT ![r].lock = Some(p), ![r].pull[p] = "pulling"]
  /\ UNCHANGED <<traceVars, gil>>
  /\ UNCHANGED <<construct, client, request_semaphore, connect_timeout,
                 permits, waiters, client_closed, req>>

\* What chunk() can return from a cursor with `body` data chunks left.
ChunkOutcomes(rs) ==
  IF rs.eos THEN {"eos"}
  ELSE (IF rs.body > 0 THEN {"chunk"} ELSE {"eos"})
       \cup {map_read_error(e) : e \in TransportErrors}

\* Mutant of anext_chunk: at end-of-stream the cursor is wound back to the
\* first chunk.
anext_chunk_rewinds(r, p) ==
  /\ resp[r].pull[p] = "pulling"
  /\ \E out \in ChunkOutcomes(resp[r]) :
       IF out = "chunk"
         THEN /\ gil = None
              /\ gil' = Some(AnextTask(r, p))
              /\ resp' = [resp EXCEPT ![r].pull[p] = "converting", ![r].body = @ - 1]
         ELSE /\ resp' = [resp EXCEPT ![r] =
                            [@ EXCEPT !.pull[p] = "idle", !.lock = None,
                                      !.last = IF @ = "none" \/ resp[r].state = "dropped" THEN @
                                               ELSE IF out = "eos" THEN "StopAsyncIteration"
                                               ELSE out,
                                      !.body = IF out = "eos" THEN MaxChunks ELSE @,
                                      !.eos = FALSE]]
              /\ UNCHANGED gil
  /\ UNCHANGED traceVars
  /\ UNCHANGED <<construct, client, request_semaphore, connect_timeout,
                 permits, waiters, client_closed, req>>

\* .chunk().await completes (line 62).  On Ok(None) and Err(e) the match arm
\* builds the exception and the MutexGuard is dropped at the end of the match
\* (lines 66-68).  On Ok(Some(chunk)) the arm enters Python::with_gil (line 63),
\* which the thread does as soon as the lock is free, the MutexGuard still held.
anext_chunk(r, p) ==
  /\ resp[r].pull[p] = "pulling"
  /\ \E out \in ChunkOutcomes(resp[r]) :
       IF out = "chunk"
         THEN /\ gil = None
              /\ gil' = Some(AnextTask(r, p))
              /\ resp' = [resp EXCEPT ![r].pull[p] = "converting", ![r].body = @ - 1]
         ELSE /\ resp' = [resp EXCEPT ![r] =
                            [@ EXCEPT !.pull[p] = "idle", !.lock = None,
                                      !.last = IF @ = "none" \/ resp[r].state = "dropped" THEN @
                                               ELSE IF out = "eos" THEN "StopAsyncIteration"
                                               ELSE out,
                                      !.eos = @ \/ out = "eos"]]
              /\ UNCHANGED gil
  /\ UNCHANGED traceVars
  /\ UNCHANGED <<construct, client, request_semaphore, connect_timeout,
                 permits, waiters, client_closed, req>>

\* Mutant of anext_bytes: the chunk is returned with the host lock still held.
anext_bytes_keeps_gil(r, p) ==
  /\ resp[r].pull[p] = "converting"
  /\ resp' = [resp EXCEPT ![r] =
                [@ EXCEPT !.pull[p] = "idle", !.lock = None,
                          !.last = IF @ = "none" \/ resp[r].state = "dropped" THEN @
                                   ELSE "chunk"]]
  /\ UNCHANGED <<traceVars, gil>>
  /\ UNCHANGED <<construct, client, request_semaphore, connect_timeout,
                 permits, waiters, client_closed, req>>

\* PyBytes::new(py, chunk).unbind() inside with_gil (lines 63-65): the closure
\* returns, the host lock is released, and the MutexGuard is dropped at the end
\* of the match.
anext_bytes(r, p) ==
  /\ resp[r].pull[p] = "converting"
  /\ gil' = None
  /\ resp' = [resp EXCEPT ![r] =
                [@ EXCEPT !.pull[p] = "idle", !.lock = None,
                          !.last = IF @ = "none" \/ resp[r].state = "dropped" THEN @
                                   ELSE "chunk"]]
  /\ UNCHANGED traceVars
  /\ UNCHANGED <<construct, client, request_semaphore, connect_timeout,
                 permits, waiters, client_closed, req>>

\* Mutant of response_close: the permit is released but not taken out of self.
response_close_without_take(r) ==
  /\ resp[r].state = "live"
  /\ gil = None
  /\ resp[r].closes < MaxCloses
  /\ resp' = [resp EXCEPT ![r].closes = @ + 1]
  /\ IF resp[r].permit THEN SetGate(drop_permit(Gate, r))
                       ELSE UNCHANGED <<req, waiters, permits>>
  /\ UNCHANGED <<traceVars, gil>>
  /\ UNCHANGED <<construct, client, request_semaphore, connect_timeout, client_closed>>

\* NativeAsyncResponse::close (lines 72-82): the permit is taken out of self and
\* dropped; the future takes the cursor out of a clone of self.response.
response_close(r) ==
  /\ resp[r].state = "live"
  /\ gil = None
  /\ resp[r].closes < MaxCloses
  /\ resp' = [resp EXCEPT ![r].permit = FALSE, ![r].closes = @ + 1,
                          ![r].response = resp[r].response]
  /\ IF resp[r].permit THEN SetGate(drop_permit(Gate, r))
                       ELSE UNCHANGED <<req, waiters, permits>>
  /\ UNCHANGED <<traceVars, gil>>
  /\ UNCHANGED <<construct, client, request_semaphore, connect_timeout, client_closed>>

\* Drop for NativeAsyncResponse (lines 21-27): the host releases its last reference
\* and the object's fields go with it.  A pull future still in flight owns its own
\* clone of the cursor's Arc and runs on.
response_drop(r) ==
  /\ resp[r].state = "live"
  /\ gil = None
  /\ resp' = [resp EXCEPT ![r].state = "dropped", ![r].permit = FALSE,
                          ![r].response = None, ![r].closes = 0,
                          ![r].last = IF @ = "none" THEN "none" ELSE "pending"]
  /\ IF resp[r].permit THEN SetGate(drop_permit(Gate, r))
                       ELSE UNCHANGED <<req, waiters, permits>>
  /\ UNCHANGED <<traceVars, gil>>
  /\ UNCHANGED <<construct, client, request_semaphore, connect_timeout, client_closed>>

\* ------------------------------------------------------- TraceMiddleware
Handles == 1..NumHandles

\* utils::Extensions is a HashMap<String, ExtensionValue>: here a function from
\* its keys to typed values [tag, val]; a Python dict is a function from its keys
\* to Python values [type, val].
EmptyMap == [k \in {} |-> [tag |-> "Str", val |-> ""]]
MapInsert(m, k, v) == [x \in DOMAIN m \cup {k} |-> IF x = k THEN v ELSE m[x]]
MapRemove(m, k) == [x \in DOMAIN m \ {k} |-> m[x]]

\* A dict key that is not a str.
NonStrKey == "<int 42>"

I64(n) == [tag |-> "I64", val |-> n]
BytesValue(b) == [tag |-> "Bytes", val |-> b]
PyInt(n) == [type |-> "int", val |-> n]
PyBool(b) == [type |-> "bool", val |-> b]
PyStr(x) == [type |-> "str", val |-> x]
PyObject == [type |-> "object", val |-> "o"]

\* IntoPyObject for ExtensionValue (derived, utils.rs 82-92).
into_pyobject(v) ==
  CASE v.tag = "Str"   -> [type |-> "str", val |-> v.val]
    [] v.tag = "I64"   -> [type |-> "int", val |-> v.val]
    [] v.tag = "Bool"  -> [type |-> "bool", val |-> v.val]
    [] v.tag = "Bytes" -> [type |-> "bytes", val |-> v.val]

\* FromPyObject for ExtensionValue (derived, utils.rs 82-92): the variants are
\* tried in order Str, I64, U64, F64, Bool, Bytes, Dict, List, so a Python bool,
\* which is an int, comes back as I64.  None: no variant extracts the value.
extract_value(pv) ==
  CASE pv.type = "str"   -> Some([tag |-> "Str", val |-> pv.val])
    [] pv.type = "int"   -> Some([tag |-> "I64", val |-> pv.val])
    [] pv.type = "bool"  -> Some([tag |-> "I64", val |-> IF pv.val = "True" THEN "1" ELSE "0"])
    [] pv.type = "bytes" -> Some([tag |-> "Bytes", val |-> pv.val])
    [] OTHER             -> None

\* utils::extensions_to_dict (utils.rs 95-104).
extensions_to_dict(ext) == [k \in DOMAIN ext |-> into_pyobject(ext[k])]

\* utils::http_extensions_to_dict (utils.rs 106-114).
http_extensions_to_dict(http_extensions) ==
  IF http_extensions = None THEN EmptyMap
  ELSE extensions_to_dict(Unwrap(http_extensions))

\* utils::extensions_from_dict (utils.rs 116-124): Some(map), or None when a key
\* is no str or a value extracts as no ExtensionValue.
extensions_from_dict(dict) ==
  IF \E k \in DOMAIN dict : k = NonStrKey \/ extract_value(dict[k]) = None
    THEN None
    ELSE Some([k \in DOMAIN dict |-> Unwrap(extract_value(dict[k]))])

\* utils::http_version_str (utils.rs 23-25): the Debug form of the Version.
http_version_str(version) ==
  CASE version = "HTTP_09" -> "HTTP/0.9"
    [] version = "HTTP_10" -> "HTTP/1.0"
    [] version = "HTTP_11" -> "HTTP/1.1"
    [] version = "HTTP_2"  -> "HTTP/2.0"
    [] version = "HTTP_3"  -> "HTTP/3.0"

\* What the observer does to the extensions dict while one hook runs.
HookWrites ==
  {[op |-> "none", key |-> "", value |-> PyObject],
   [op |-> "set", key |-> "a", value |-> PyInt("1")],
   [op |-> "set", key |-> "a", value |-> PyInt("3")],
   [op |-> "set", key |-> "b", value |-> PyInt("2")],
   [op |-> "set", key |-> "b", value |-> PyBool("True")],
   [op |-> "set", key |-> "http_version", value |-> PyStr("spoofed")],
   [op |-> "set", key |-> "a", value |-> PyObject],
   [op |-> "set", key |-> NonStrKey, value |-> PyInt("1")],
   [op |-> "del", key |-> "a", value |-> PyObject]}

ApplyWrite(dict, w) ==
  CASE w.op = "set" -> MapInsert(dict, w.key, w.value)
    [] w.op = "del" -> MapRemove(dict, w.key)
    [] OTHER        -> dict

\* What next.run returns: a Response of some version, with or without an
\* extension store of its own, or an error.
TraceVersions == {"HTTP_11", "HTTP_2"}
DispatchResults ==
  {[ok |-> TRUE, version |-> v, extensions |-> e, error |-> None] :
     v \in TraceVersions, e \in {None, Some(EmptyMap)}}
  \cup {[ok |-> FALSE, version |-> "none", extensions |-> None,
         error |-> Some("transport error")]}

\* The reqwest::Request handed to handle, as the two parts the middleware reads.
TraceRequests ==
  {[method |-> "GET", url |-> "http://h/"], [method |-> "POST", url |-> "https://h/"]}

\* RequestTraceInfo::from(&request) (trace.rs 193-200).
RequestTraceInfo(rq) == [method |-> rq.method, url |-> rq.url]

\* One call of handle: its arguments, its locals, and what the observer was
\* handed and did (start_write, end_write: what it did to the extensions dict
\* in each hook; raised: the hook that failed).
NewHandle(rq, http_extensions) ==
  [pc |-> "Idle", request |-> rq, http_extensions |-> http_extensions,
   ext_dict |-> None, req_info |-> None, events |-> <<>>, result |-> None,
   end_data |-> None, start_write |-> None, end_write |-> None, raised |-> None,
   outcome |-> None]

\* handle() returns Err(Error::Middleware(e)).
MiddlewareError(h, e) ==
  [h EXCEPT !.pc = "Done", !.outcome = Some([ok |-> FALSE, error |-> e])]

\* Mutant of finish: the Response's extension store gets "http_version" only.
finish_without_request_extensions(h) ==
  LET result == Unwrap(h.result) IN
    IF result.ok
      THEN LET ext0 == IF result.extensions = None THEN EmptyMap
                       ELSE Unwrap(result.extensions)
               ext1 == MapInsert(ext0, "http_version",
                                 BytesValue(http_version_str(result.version)))
           IN [h EXCEPT !.pc = "Done",
                        !.outcome = Some([ok |-> TRUE, version |-> result.version,
                                          extensions |-> ext1])]
      ELSE [h EXCEPT !.pc = "Done",
                     !.outcome = Some([ok |-> FALSE, error |-> Unwrap(result.error)])]

\* handle, lines 79-90, once on_request_end has returned Ok: on a successful
\* dispatch the Response's extension store gets "http_version" and then every
\* entry of the request's Extensions; the result is returned.
finish(h) ==
  LET result == Unwrap(h.result) IN
    IF result.ok
      THEN LET ext0 == IF result.extensions = None THEN EmptyMap
                       ELSE Unwrap(result.extensions)
               ext1 == MapInsert(ext0, "http_version",
                                 BytesValue(http_version_str(result.version)))
               req_ext == IF h.http_extensions = None THEN EmptyMap
                          ELSE Unwrap(h.http_extensions)
               ext2 == [k \in DOMAIN ext1 \cup DOMAIN req_ext |->
                          IF k \in DOMAIN req_ext THEN req_ext[k] ELSE ext1[k]]
           IN [h EXCEPT !.pc = "Done",
                        !.outcome = Some([ok |-> TRUE, version |-> result.version,
                                          extensions |-> ext2])]
      ELSE [h EXCEPT !.pc = "Done",
                     !.outcome = Some([ok |-> FALSE, error |-> Unwrap(result.error)])]

\* on_request_start up to the hook's awaitable (lines 115-139); without a tracer
\* it returns Ok(None) and handle goes on to next.run (line 74).
on_request_start(h, raises) ==
  IF tracer = None
    THEN [h EXCEPT !.pc = "Dispatching", !.events = Append(@, "dispatch")]
    ELSE LET h1 == [h EXCEPT !.req_info = Some(RequestTraceInfo(h.request)),
                             !.ext_dict = Some(http_extensions_to_dict(h.http_extensions)),
                             !.events = Append(@, "start")]
         IN IF raises
              THEN MiddlewareError([h1 EXCEPT !.raised = Some("start")],
                                   "on_request_start raised")
            ELSE [h1 EXCEPT !.pc = "StartHookRunning"]

\* Mutant of on_request_start_resume: a dict that does not convert is dropped and
\* the request is dispatched on the Extensions it had.
on_request_start_resume_ignores_dict(h, w, raises) ==
  LET dict == ApplyWrite(Unwrap(h.ext_dict), w)
      h1 == [h EXCEPT !.ext_dict = Some(dict), !.start_write = Some(w)]
  IN IF raises
       THEN MiddlewareError([h1 EXCEPT !.raised = Some("start")],
                            "on_request_start raised")
     ELSE IF extensions_from_dict(dict) = None
       THEN [h1 EXCEPT !.pc = "Dispatching", !.events = Append(@, "dispatch")]
     ELSE [h1 EXCEPT !.http_extensions = extensions_from_dict(dict),
                     !.pc = "Dispatching", !.events = Append(@, "dispatch")]

\* on_request_start from fut.await on (lines 141-148), then next.run (line 74).
on_request_start_resume(h, w, raises) ==
  LET dict == ApplyWrite(Unwrap(h.ext_dict), w)
      h1 == [h EXCEPT !.ext_dict = Some(dict), !.start_write = Some(w)]
  IN IF raises
       THEN MiddlewareError([h1 EXCEPT !.raised = Some("start")],
                            "on_request_start raised")
     ELSE IF extensions_from_dict(dict) = None
       THEN MiddlewareError(h1, "extensions_from_dict failed")
     ELSE [h1 EXCEPT !.http_extensions = extensions_from_dict(dict),
                     !.pc = "Dispatching", !.events = Append(@, "dispatch")]

\* Mutant of on_request_end: a failed dispatch is returned at once (next.run(..).await?),
\* so the end hook is called for a successful dispatch only.
on_request_end_only_on_success(h, result, raises) ==
  LET h0 == [h EXCEPT !.result = Some(result)] IN
    IF tracer = None \/ ~result.ok THEN finish(h0)
    ELSE LET data == [request |-> h.req_info,
                      response |-> Some([version |-> http_version_str(result.version)]),
                      error |-> None,
                      extensions |-> http_extensions_to_dict(h.http_extensions)]
             h1 == [h0 EXCEPT !.ext_dict = Some(data.extensions),
                              !.end_data = Some(data),
                              !.events = Append(@, "end")]
         IN IF raises
              THEN MiddlewareError([h1 EXCEPT !.raised = Some("end")],
                                   "on_request_end raised")
            ELSE [h1 EXCEPT !.pc = "EndHookRunning"]

\* Mutant of on_request_end: the data handed to the end hook never carries an
\* error descriptor.
on_request_end_without_error(h, result, raises) ==
  LET h0 == [h EXCEPT !.result = Some(result)] IN
    IF tracer = None THEN finish(h0)
    ELSE LET data == [request |-> h.req_info,
                      response |-> IF result.ok
                                     THEN Some([version |-> http_version_str(result.version)])
                                     ELSE None,
                      error |-> None,
                      extensions |-> http_extensions_to_dict(h.http_extensions)]
             h1 == [h0 EXCEPT !.ext_dict = Some(data.extensions),
                              !.end_data = Some(data),
                              !.events = Append(@, "end")]
         IN IF raises
              THEN MiddlewareError([h1 EXCEPT !.raised = Some("end")],
                                   "on_request_end raised")
            ELSE [h1 EXCEPT !.pc = "EndHookRunning"]

\* next.run has returned `result` (line 74); on_request_end up to the hook's
\* awaitable (lines 151-181).  Without a tracer it returns Ok(()) at once.
on_request_end(h, result, raises) ==
  LET h0 == [h EXCEPT !.result = Some(result)] IN
    IF tracer = None THEN finish(h0)
    ELSE LET data == [request |-> h.req_info,
                      response |-> IF result.ok
                                     THEN Some([version |-> http_version_str(result.version)])
                                     ELSE None,
                      error |-> IF result.ok THEN None ELSE result.error,
                      extensions |-> http_extensions_to_dict(h.http_extensions)]
             h1 == [h0 EXCEPT !.ext_dict = Some(data.extensions),
                              !.end_data = Some(data),
                              !.events = Append(@, "end")]
         IN IF raises
              THEN MiddlewareError([h1 EXCEPT !.raised = Some("end")],
                                   "on_request_end raised")
            ELSE [h1 EXCEPT !.pc = "EndHookRunning"]

\* Mutant of on_request_end_resume: a failure of the end hook's awaitable is
\* dropped and handle returns the dispatch result.
on_request_end_resume_swallows(h, w, raises) ==
  LET dict == ApplyWrite(Unwrap(h.ext_dict), w)
      h1 == [h EXCEPT !.ext_dict = Some(dict), !.end_write = Some(w),
                      !.raised = IF raises THEN Some("end") ELSE @]
  IN IF extensions_from_dict(dict) = None
       THEN finish(h1)
     ELSE finish([h1 EXCEPT !.http_extensions = extensions_from_dict(dict)])

\* on_request_end from fut.await on (lines 183-189), then the rest of handle.
on_request_end_resume(h, w, raises) ==
  LET dict == ApplyWrite(Unwrap(h.ext_dict), w)
      h1 == [h EXCEPT !.ext_dict = Some(dict), !.end_write = Some(w)]
  IN IF raises
       THEN MiddlewareError([h1 EXCEPT !.raised = Some("end")],
                            "on_request_end raised")
     ELSE IF extensions_from_dict(dict) = None
       THEN MiddlewareError(h1, "extensions_from_dict failed")
     ELSE finish([h1 EXCEPT !.http_extensions = extensions_from_dict(dict)])

\* The steps of TraceMiddleware::handle (lines 66-92).  A step that runs
\* Python::with_gil is taken in two: the thread gets the host lock, then the
\* closures run and the lock is released.
\* on_request_start is entered (line 72); with a tracer, with_gil of line 126.
handle_start(t) ==
  /\ tr[t].pc = "Idle"
  /\ IF tracer = None
       THEN /\ tr' = [tr EXCEPT ![t] = on_request_start(@, FALSE)]
            /\ UNCHANGED gil
       ELSE /\ gil = None
            /\ gil' = Some(HandleTask(t))
            /\ tr' = [tr EXCEPT ![t].pc = "StartHookCalling"]
  /\ UNCHANGED <<tracer, clientVars>>

\* The closures of lines 126 and 129-138 run; the lock is released before fut.await.
handle_start_call(t) ==
  /\ tr[t].pc = "StartHookCalling"
  /\ \E raises \in BOOLEAN :
       tr' = [tr EXCEPT ![t] = on_request_start(@, raises)]
  /\ gil' = None
  /\ UNCHANGED <<tracer, clientVars>>

\* fut.await completes (line 141), the observer having done w to the dict; on
\* Ok the thread enters with_gil of line 144.
handle_start_hook_done(t) ==
  /\ tr[t].pc = "StartHookRunning"
  /\ \E w \in HookWrites, raises \in BOOLEAN :
       IF raises
         THEN /\ tr' = [tr EXCEPT ![t] = on_request_start_resume(@, w, TRUE)]
              /\ UNCHANGED gil
         ELSE /\ gil = None
              /\ gil' = Some(HandleTask(t))
              /\ tr' = [tr EXCEPT ![t].pc = "StartHookReturned",
                                  ![t].start_write = Some(w)]
  /\ UNCHANGED <<tracer, clientVars>>

\* extensions_from_dict runs (line 144), the lock is released, and next.run is
\* called (line 74).
handle_start_merge(t) ==
  /\ tr[t].pc = "StartHookReturned"
  /\ tr' = [tr EXCEPT ![t] = on_request_start_resume(@, Unwrap(@.start_write), FALSE)]
  /\ gil' = None
  /\ UNCHANGED <<tracer, clientVars>>

\* next.run returns (line 74) and on_request_end is entered (line 76); with a
\* tracer, with_gil of line 162.
handle_dispatch_done(t) ==
  /\ tr[t].pc = "Dispatching"
  /\ \E result \in DispatchResults :
       IF tracer = None
         THEN /\ tr' = [tr EXCEPT ![t] = on_request_end(@, result, FALSE)]
              /\ UNCHANGED gil
         ELSE /\ gil = None
              /\ gil' = Some(HandleTask(t))
              /\ tr' = [tr EXCEPT ![t].pc = "EndHookCalling",
                                  ![t].result = Some(result)]
  /\ UNCHANGED <<tracer, clientVars>>

\* The closures of lines 162 and 165-180 run; the lock is released before fut.await.
handle_end_call(t) ==
  /\ tr[t].pc = "EndHookCalling"
  /\ \E raises \in BOOLEAN :
       tr' = [tr EXCEPT ![t] = on_request_end(@, Unwrap(@.result), raises)]
  /\ gil' = None
  /\ UNCHANGED <<tracer, clientVars>>

\* fut.await completes (line 183); on Ok the thread enters with_gil of line 186.
handle_end_hook_done(t) ==
  /\ tr[t].pc = "EndHookRunning"
  /\ \E w \in HookWrites, raises \in BOOLEAN :
       IF raises
         THEN /\ tr' = [tr EXCEPT ![t] = on_request_end_resume(@, w, TRUE)]
              /\ UNCHANGED gil
         ELSE /\ gil = None
              /\ gil' = Some(HandleTask(t))
              /\ tr' = [tr EXCEPT ![t].pc = "EndHookReturned",
                                  ![t].end_write = Some(w)]
  /\ UNCHANGED <<tracer, clientVars>>

\* extensions_from_dict runs (line 186), the lock is released, and handle
\* finishes (lines 79-90).
handle_end_merge(t) ==
  /\ tr[t].pc = "EndHookReturned"
  /\ tr' = [tr EXCEPT ![t] = on_request_end_resume(@, Unwrap(@.end_write), FALSE)]
  /\ gil' = None
  /\ UNCHANGED <<tracer, clientVars>>

\* The Extensions the caller's transport context holds when handle is entered.
InitialExtensions == {None, Some(MapInsert(EmptyMap, "b", I64("3")))}

TraceIdle ==
  /\ tracer = None
  /\ tr = [t \in Handles |-> NewHandle([method |-> "GET", url |-> "http://h/"], None)]

TraceInit ==
  /\ tracer \in {None, Some("observer")}
  /\ tr \in [Handles -> {NewHandle(q, e) : q \in TraceRequests, e \in InitialExtensions}]

TraceNext ==
  \/ \E t \in Handles : handle_start(t)
  \/ \E t \in Handles : handle_start_call(t)
  \/ \E t \in Handles : handle_start_hook_done(t)
  \/ \E t \in Handles : handle_start_merge(t)
  \/ \E t \in Handles : handle_dispatch_done(t)
  \/ \E t \in Handles : handle_end_call(t)
  \/ \E t \in Handles : handle_end_hook_done(t)
  \/ \E t \in Handles : handle_end_merge(t)

\* ------------------------------------------------------- specifications
\* The Client, its gate and its Responses.
Init == ClientInit /\ TraceIdle

Next ==
  \/ \E r \in Requests : request(r)
  \/ \E r \in Requests : limit_connections(r)
  \/ \E r \in Requests : pool_timeout(r)
  \/ \E r \in Requests : build_request(r)
  \/ \E r \in Requests : body_stream_next(r)
  \/ \E r \in Requests : body_stream_extract(r)
  \/ \E r \in Requests : execute_err(r)
  \/ \E r \in Requests : execute_ok(r)
  \/ \E r \in Requests : cancel(r)
  \/ client_close
  \/ \E r \in Requests, p \in Pullers : anext(r, p)
  \/ \E r \in Requests, p \in Pullers : anext_lock(r, p)
  \/ \E r \in Requests, p \in Pullers : anext_chunk(r, p)
  \/ \E r \in Requests, p \in Pullers : anext_bytes(r, p)
  \/ \E r \in Requests : response_close(r)
  \/ \E r \in Requests : response_drop(r)

Spec == Init /\ [][Next]_vars

\* The same, with the scheduling the runtime and the host give: a task that can
\* run is run, the Transport answers every request it was handed, and the host
\* lets go of every Response it got.  Timeouts and cancellations may or may not come.
Fairness ==
  \A r \in Requests :
    /\ WF_vars(limit_connections(r))
    /\ WF_vars(build_request(r))
    /\ WF_vars(body_stream_extract(r))
    /\ WF_vars(execute_ok(r) \/ execute_err(r))
    /\ WF_vars(response_drop(r))
    /\ \A p \in Pullers : WF_vars(anext_bytes(r, p))

LiveSpec == Init /\ [][Next]_vars /\ Fairness

\* The trace middleware around one dispatch, on a Client that serves no request.
ClientIdle ==
  LET c == py_new(TRUE, TRUE, None, FALSE) IN
    /\ construct = c.result
    /\ client = c.client
    /\ request_semaphore = c.request_semaphore
    /\ connect_timeout = c.connect_timeout
    /\ permits = 0
    /\ waiters = <<>>
    /\ client_closed = FALSE
    /\ req = [r \in Requests |-> NewRequest]
    /\ resp = [r \in Requests |-> NoResponse]
    /\ gil = None

TraceSpecInit == ClientIdle /\ TraceInit

TraceSpec == TraceSpecInit /\ [][TraceNext]_vars

\* ------------------------------------------------------- properties
\* Permits issued and not yet returned, by who holds them.
HeldByRequests == {r \in Requests : req[r].permit}
HeldByResponses == {r \in Requests : resp[r].permit}
Outstanding == Cardinality(HeldByRequests) + Cardinality(HeldByResponses)
Capacity == Unwrap(request_semaphore)
Gated == request_semaphore # None

\* C1: with a connection cap N, at most N admission permits are outstanding
\* (held by in-flight requests or by Responses) in every reachable state.
C1_AtMostNPermitsOutstanding ==
  Gated => Outstanding <= Capacity /\ permits >= 0

\* C1 witness: the cap is reached, one permit is with a Response, and a request waits.
C1_Witness_CapReachedWhileWaiting ==
  /\ Gated
  /\ Outstanding = Capacity
  /\ HeldByResponses # {}
  /\ waiters # <<>>

HeaderErrors == {"BadHeaderError: Invalid header key", "BadHeaderError: Invalid header value"}
ValidationErrors == {"BadMethodError", "BadUrlError"} \cup HeaderErrors

\* A request that fails validation: its header list is malformed, or it has
\* been rejected with a validation error.
FailsValidation(r) ==
  \/ req[r].headers \in {"bad_key", "bad_value"}
  \/ req[r].result \in ValidationErrors

\* C2: a request that fails validation (method, URL, scheme, header) never
\* acquires a permit, never waits on the gate and is never dispatched.
C2_ValidationFailureTakesNoPermit ==
  \A r \in Requests :
    FailsValidation(r) =>
      /\ req[r].acquired = 0
      /\ ~req[r].permit
      /\ req[r].pc # "waiting"
      /\ ~req[r].dispatched

PostAdmissionErrors ==
  HeaderErrors
  \cup {"RuntimeError: Invalid request", "RuntimeError: Unknown HTTP version"}
  \cup {map_send_error(e) : e \in TransportErrors}

\* C3: on every error exit taken after admission, the permit is back at the gate
\* when the error is returned, and no Response owning it exists.
C3_ErrorExitReturnsPermit ==
  \A r \in Requests :
    (req[r].pc = "failed" /\ req[r].result \in PostAdmissionErrors) =>
      /\ ~req[r].permit
      /\ resp[r].state = "none"
      /\ req[r].released = req[r].acquired
      /\ Gated => permits + Outstanding = Capacity

\* C3 witness: under a gate, one request failed in the Transport and another in
\* Response construction, each after it had been issued a permit.
C3_Witness_FailedAfterAdmission ==
  /\ Gated
  /\ \E r \in Requests :
       req[r].result \in {map_send_error(e) : e \in TransportErrors} /\ req[r].acquired = 1
  /\ \E r \in Requests :
       req[r].result = "RuntimeError: Unknown HTTP version" /\ req[r].acquired = 1

\* C4: once a chunk pull on a Response has reported end-of-stream, the Response
\* holds no permit any more.
C4_EndOfStreamReleasesPermit ==
  \A r \in Requests : (resp[r].state = "live" /\ resp[r].eos) => ~resp[r].permit

\* C5: close() is idempotent.  The permit a Response got is returned once, by the
\* first close(), whether or not the Response is dropped later; a later close()
\* changes neither the gate nor the Response.
C5_CloseIsIdempotent ==
  [][\A r \in Requests :
       /\ req'[r].released <= 1
       /\ resp'[r].closes >= 1 =>
            ~resp'[r].permit /\ req'[r].released = req'[r].acquired
       /\ (resp[r].closes >= 1 /\ resp'[r].closes = resp[r].closes + 1) =>
            /\ permits' = permits
            /\ waiters' = waiters
            /\ req' = req
            /\ resp' = [resp EXCEPT ![r].closes = @ + 1]]_vars

\* C5 witness: a Response that held a permit has been closed twice.
C5_Witness_ClosedTwice ==
  \E r \in Requests :
    resp[r].closes = 2 /\ req[r].acquired = 1 /\ req[r].released = 1

\* C6: after close() on a Response, a next() call starts no chunk pull: it fails.
C6_NextAfterCloseFails ==
  [][\A r \in Requests, p \in Pullers :
       (resp[r].closes >= 1 /\ resp[r].pull[p] = "idle") =>
         resp'[r].pull[p] = "idle"]_vars

\* C7: after close() on the Client, a request() call fails with "not
\* initialized": it acquires nothing and dispatches nothing.
C7_RequestAfterCloseFails ==
  [][\A r \in Requests :
       (client_closed /\ req[r].pc = "idle" /\ req'[r].pc # "idle") =>
         /\ req'[r].pc = "failed"
         /\ req'[r].result = "RuntimeError: Client is not initialized"]_vars

\* C8: a request failed with PoolTimeout only under a configured connect
\* deadline and while it waited; it was issued no permit, was not dispatched,
\* has left the queue, and every permit of the gate is accounted for without it.
C8_PoolTimeoutTakesNoPermit ==
  \A r \in Requests :
    req[r].result = "PoolTimeoutError" =>
      /\ connect_timeout
      /\ req[r].pc = "failed"
      /\ req[r].waited
      /\ req[r].acquired = 0
      /\ ~req[r].permit
      /\ ~req[r].dispatched
      /\ resp[r].state = "none"
      /\ \A i \in 1..Len(waiters) : waiters[i] # r
      /\ permits + Outstanding = Capacity

\* C8 witness: a request timed out on the gate while another holds the permit.
C8_Witness_TimedOutWhileFull ==
  \E r \in Requests :
    /\ req[r].result = "PoolTimeoutError"
    /\ permits = 0
    /\ Outstanding = Capacity

\* C9: with no connect deadline, a request that had to wait on the gate is
\* admitted and dispatched: when it has come to an end in failure, it had been
\* dispatched before (the request builder's own error aside).
C9_WaiterIsDispatched ==
  \A r \in Requests :
    (/\ ~connect_timeout
     /\ req[r].waited
     /\ req[r].pc = "failed"
     /\ req[r].result # "RuntimeError: Invalid request") => req[r].dispatched

\* The part of C9 the code does keep: with no connect deadline a waiting request
\* leaves the queue only by a permit another holder returns, or by cancellation;
\* and under fair scheduling every waiting request is admitted, unless cancelled.
WaiterStaysUntilRelease ==
  [][\A r \in Requests :
       (~connect_timeout /\ req[r].pc = "waiting" /\ req'[r].pc # "waiting") =>
         \/ req'[r].pc = "cancelled"
         \/ /\ req'[r].pc = "admitted"
            /\ req'[r].permit
            /\ \E q \in Requests \ {r} : req'[q].released = req[q].released + 1]_vars

WaiterIsAdmitted ==
  \A r \in Requests :
    (~connect_timeout /\ req[r].pc = "waiting")
      ~> (req[r].acquired = 1 \/ req[r].pc = "cancelled")

\* C10: with an observer, the hook calls and the dispatch of one request are
\* observed in the order start, dispatch, end: dispatch begins only when the start
\* hook has completed, and once dispatch has run the request is not finished
\* before the end hook has been called, exactly once.
C10_StartDispatchEnd ==
  tracer # None =>
    \A t \in Handles :
      LET ev == tr[t].events IN
        /\ ev = SubSeq(<<"start", "dispatch", "end">>, 1, Len(ev))
        /\ tr[t].pc \in {"Idle", "StartHookCalling"} <=> ev = <<>>
        /\ tr[t].pc \in {"StartHookRunning", "StartHookReturned"} => ev = <<"start">>
        /\ tr[t].pc \in {"Dispatching", "EndHookCalling"} => ev = <<"start", "dispatch">>
        /\ tr[t].pc \in {"EndHookRunning", "EndHookReturned"} =>
             ev = <<"start", "dispatch", "end">>
        /\ (tr[t].pc = "Done" /\ Len(ev) >= 2) => ev = <<"start", "dispatch", "end">>

\* C10 witness: a request whose dispatch failed is done, after start, dispatch, end.
C10_Witness_FailedDispatchTraced ==
  \E t \in Handles :
    /\ tracer # None
    /\ tr[t].pc = "Done"
    /\ tr[t].result # None
    /\ ~Unwrap(tr[t].result).ok
    /\ tr[t].events = <<"start", "dispatch", "end">>

\* C11: the data handed to the end hook carries exactly one of a response
\* descriptor and an error descriptor: the response descriptor if and only if
\* dispatch succeeded, the error descriptor if and only if it failed; and its
\* request descriptor is the one captured at the start hook.
C11_EndHookGetsResponseOrError ==
  \A t \in Handles :
    tr[t].end_data # None =>
      LET d == Unwrap(tr[t].end_data)
          result == Unwrap(tr[t].result)
      IN /\ (d.response # None) # (d.error # None)
         /\ result.ok <=> d.response # None
         /\ ~result.ok <=> d.error # None
         /\ result.ok => d.response = Some([version |-> http_version_str(result.version)])
         /\ ~result.ok => d.error = result.error
         /\ d.request = tr[t].req_info
         /\ d.request = Some(RequestTraceInfo(tr[t].request))
         /\ "start" \in {tr[t].events[i] : i \in 1..Len(tr[t].events)}

\* C11 witness: the end hook of a POST request is running on the error
\* descriptor of a failed dispatch.
C11_Witness_EndHookOnError ==
  \E t \in Handles :
    /\ tr[t].pc = "EndHookRunning"
    /\ tr[t].request.method = "POST"
    /\ Unwrap(tr[t].end_data).error = Some("transport error")
    /\ Unwrap(tr[t].end_data).response = None

\* The entry a hook's write sets, as the Extensions store it and as a dict shows it.
Stored(w) == Unwrap(extract_value(w.value))
Holds(map, key, value) == key \in DOMAIN map /\ map[key] = value

\* C12: the entries the start hook sets are attached to the dispatch context
\* and handed to the end hook; the Response returned carries the start hook's
\* entries together with the end hook's, the end hook's entry winning on a key
\* both hooks wrote.
C12_ExtensionsAreMerged ==
  \A t \in Handles :
    LET h == tr[t]
        sw == Unwrap(h.start_write)
        ew == Unwrap(h.end_write)
    IN /\ (h.pc = "Dispatching" /\ h.start_write # None /\ sw.op = "set") =>
            Holds(Unwrap(h.http_extensions), sw.key, Stored(sw))
       /\ (h.end_data # None /\ sw.op = "set") =>
            Holds(Unwrap(h.end_data).extensions, sw.key, into_pyobject(Stored(sw)))
       /\ (h.pc = "Done" /\ h.end_write # None /\ Unwrap(h.outcome).ok) =>
            LET ext == Unwrap(h.outcome).extensions IN
              /\ ew.op = "set" => Holds(ext, ew.key, Stored(ew))
              /\ (sw.op = "set" /\ ~(ew.op \in {"set", "del"} /\ ew.key = sw.key)) =>
                   Holds(ext, sw.key, Stored(sw))

\* C12 witness: the start hook set a=1, the end hook set b=2, and the Response
\* returned carries both.
C12_Witness_BothHooksWrote ==
  \E t \in Handles :
    /\ tr[t].pc = "Done"
    /\ tr[t].start_write = Some([op |-> "set", key |-> "a", value |-> PyInt("1")])
    /\ tr[t].end_write = Some([op |-> "set", key |-> "b", value |-> PyInt("2")])
    /\ Unwrap(tr[t].outcome).ok
    /\ Holds(Unwrap(tr[t].outcome).extensions, "a", I64("1"))
    /\ Holds(Unwrap(tr[t].outcome).extensions, "b", I64("2"))

\* What handle has returned to its caller.
Returned(t) == Unwrap(tr[t].outcome)
DispatchRan(t) == tr[t].result # None

\* C18: when the start hook or the end hook fails, handle is over and its caller
\* has the hook's error as a middleware failure, and no Response, also when the
\* dispatch had succeeded; a start hook failure leaves the request undispatched.
\* No error is swallowed: handle returns a Response only when no hook failed,
\* the dispatch succeeded and the observer's dict was read back.
C18_HookFailureAbortsRequest ==
  \A t \in Handles :
    /\ tr[t].raised = Some("start") =>
         /\ tr[t].pc = "Done"
         /\ Returned(t) = [ok |-> FALSE, error |-> "on_request_start raised"]
         /\ ~DispatchRan(t)
    /\ tr[t].raised = Some("end") =>
         /\ tr[t].pc = "Done"
         /\ Returned(t) = [ok |-> FALSE, error |-> "on_request_end raised"]
    /\ (tr[t].pc = "Done" /\ Returned(t).ok) =>
         /\ tr[t].raised = None
         /\ DispatchRan(t)
         /\ Unwrap(tr[t].result).ok
         /\ tracer # None => extensions_from_dict(Unwrap(tr[t].ext_dict)) # None
    /\ (tr[t].pc = "Done" /\ tr[t].raised = None /\ DispatchRan(t)
          /\ ~Unwrap(tr[t].result).ok /\ tr[t].end_write # None
          /\ extensions_from_dict(Unwrap(tr[t].ext_dict)) # None) =>
         Returned(t) = [ok |-> FALSE, error |-> Unwrap(Unwrap(tr[t].result).error)]

\* C18 witness: the end hook's awaitable failed after a successful dispatch, and
\* the caller has the hook's error.
C18_Witness_EndHookFailedAfterSuccess ==
  \E t \in Handles :
    /\ tr[t].raised = Some("end")
    /\ tr[t].end_write # None
    /\ Unwrap(tr[t].result).ok
    /\ ~Returned(t).ok

\* The __anext__ calls on Response r that are past lock().await: inside chunk(),
\* or turning the chunk they got into bytes.
Pulling(r) == {p \in Pullers : resp[r].pull[p] \in {"pulling", "converting"}}

\* C13: on one Response at most one chunk pull is in progress at any time; the
\* call that pulls is the one that holds the cursor's lock, and the lock is free
\* whenever no call is pulling, so a call that has returned has left it free.
C13_OnePullAtATime ==
  \A r \in Requests :
    /\ Cardinality(Pulling(r)) <= 1
    /\ resp[r].lock = Pulling(r)

\* C13 witness: one next() is pulling while a second next() on the same
\* Response waits for the lock.
C13_Witness_SecondCallWaits ==
  \E r \in Requests, p, q \in Pullers :
    /\ resp[r].pull[p] = "pulling"
    /\ resp[r].pull[q] = "locking"

\* Call p of __anext__ on Response r completes in this step.
Completes(r, p) ==
  resp[r].pull[p] \in {"pulling", "converting"} /\ resp'[r].pull[p] = "idle"

Cancelled(r) == req[r].pc # "cancelled" /\ req'[r].pc = "cancelled"

\* C15: when a request task is cancelled at a suspension point, the permit it
\* held is back at the gate in the same step, the task is off the wait queue and
\* every permit of the gate is accounted for; a task cancelled while it waits
\* for admission was issued no permit and leaves the gate's count as it was.  A
\* Response dropped before the host got hold of it returns its permit too.
C15_CancellationReturnsPermit ==
  [][\A r \in Requests :
       /\ Cancelled(r) =>
            /\ ~req'[r].permit
            /\ req'[r].released = req'[r].acquired
            /\ \A i \in 1..Len(waiters') : waiters'[i] # r
            /\ resp'[r].state = "none"
            /\ Gated => permits' + Outstanding' = Capacity
            /\ req[r].permit =>
                 \/ permits' = permits + 1
                 \/ \E q \in Requests : ~req[q].permit /\ req'[q].permit
       /\ (Cancelled(r) /\ req[r].pc = "waiting") =>
            /\ req'[r].acquired = 0
            /\ permits' = permits
            /\ \A q \in Requests \ {r} : req'[q] = req[q]
       /\ resp'[r].state = "dropped" =>
            ~resp'[r].permit /\ req'[r].released = req'[r].acquired]_vars

\* C15 witness: one task was cancelled while it waited for admission, another
\* while it held a permit, and the gate has all its permits.
C15_Witness_CancelledWaitingAndAdmitted ==
  /\ Gated
  /\ permits = Capacity
  /\ \E r, q \in Requests :
       /\ req[r].pc = "cancelled" /\ req[r].waited /\ req[r].acquired = 0
       /\ req[q].pc = "cancelled" /\ req[q].acquired = 1 /\ req[q].released = 1

\* The kind of failure each exception class of exceptions.rs stands for.
SendKind(exception) ==
  CASE exception = "SendConnectionError" -> "connection"
    [] exception = "SendTimeoutError"    -> "timeout"
    [] exception = "SendUnknownError"    -> "unknown"

ReadKind(exception) ==
  CASE exception = "ReadConnectionError" -> "connection"
    [] exception = "ReadTimeoutError"    -> "timeout"
    [] exception = "ReadUnknownError"    -> "unknown"

SendErrors == {"SendConnectionError", "SendTimeoutError", "SendUnknownError"}
ReadErrors == {"ReadConnectionError", "ReadTimeoutError", "ReadUnknownError"}

\* C16: a Transport failure is reported as exactly one of connection, timeout
\* and unknown, and a failure is of the same kind whether it is classified at
\* dispatch or at a chunk pull; a dispatched request that failed in the
\* Transport, and a chunk pull that failed, carry one of the three classes.
C16_SameClassificationOnSendAndRead ==
  /\ \A e \in TransportErrors :
       /\ map_send_error(e) \in SendErrors
       /\ map_read_error(e) \in ReadErrors
       /\ SendKind(map_send_error(e)) = ReadKind(map_read_error(e))
  /\ \A r \in Requests :
       /\ (req[r].pc = "failed" /\ req[r].dispatched) =>
            req[r].result \in SendErrors \cup {"RuntimeError: Unknown HTTP version"}
       /\ resp[r].last \in
            ReadErrors \cup {"none", "pending", "chunk", "StopAsyncIteration",
                             "RuntimeError: Response is not initialized"}

\* C16 witness: one request failed at dispatch and one chunk pull failed, both
\* with a timeout.
C16_Witness_TimeoutOnSendAndOnRead ==
  \E r, q \in Requests :
    /\ req[r].result = "SendTimeoutError"
    /\ resp[q].last = "ReadTimeoutError"

\* C19: the body is built before admission is asked for.  The call in which
\* body construction fails returns the error at once: the request was issued
\* no permit, never waited on the gate, was not dispatched, and the gate (its
\* count, its queue, the other requests) is as it was before the call.
C19_BodyFailureTakesNoPermit ==
  [][\A r \in Requests :
       req'[r].result = "TypeError" =>
         /\ req'[r].pc = "failed"
         /\ req'[r].acquired = 0
         /\ ~req'[r].waited
         /\ ~req'[r].permit
         /\ ~req'[r].dispatched
         /\ resp'[r].state = "none"
         /\ req[r].result # "TypeError" =>
              /\ req[r].pc = "idle"
              /\ permits' = permits
              /\ waiters' = waiters
              /\ \A q \in Requests \ {r} : req'[q] = req[q]]_vars

\* C19 witness: body construction failed for a request made while the gate
\* had a free permit, and the permit is still free.
C19_Witness_BodyFailedUnderFreeGate ==
  \E r \in Requests :
    /\ req[r].result = "TypeError"
    /\ Gated
    /\ permits = Capacity
    /\ \A q \in Requests \ {r} : req[q].pc = "idle"

\* C20: no Client exists with a gate of capacity 0.  Construction with a
\* connection cap of 0, or with neither protocol version enabled, fails with a
\* configuration error and yields no Client, so no request runs on it; a Client
\* that exists has no gate or a gate of capacity 1 or more, and a request waits
\* only on such a gate.
C20_ZeroCapIsRejectedAtConstruction ==
  /\ \A http1 \in BOOLEAN, http2 \in BOOLEAN, ct \in BOOLEAN :
       /\ py_new(http1, http2, Some(0), ct).result \in
            {"ValueError: max_connections", "ValueError: http1 or http2"}
       /\ \A cap \in {None} \cup {Some(n) : n \in 0..MaxConnections} :
            py_new(FALSE, FALSE, cap, ct).result = "ValueError: http1 or http2"
  /\ construct # "Ok" =>
       /\ client = None
       /\ request_semaphore = None
       /\ waiters = <<>>
       /\ \A r \in Requests : req[r] = NewRequest /\ resp[r] = NoResponse
  /\ construct = "Ok" =>
       /\ client # None
       /\ Gated => Capacity >= 1
  /\ waiters # <<>> => Gated /\ Capacity >= 1
  /\ \A r \in Requests : req[r].pc = "waiting" => Gated /\ Capacity >= 1

\* C20 witness: construction with a connection cap of 0 has failed.
C20_Witness_ZeroCapRejected ==
  /\ construct = "ValueError: max_connections"
  /\ client = None
  /\ request_semaphore = None

\* The task is inside a Python::with_gil closure.
InWithGil(task) ==
  CASE task.kind = "request" -> req[task.id].pc = "extracting"
    [] task.kind = "anext"   -> resp[task.id].pull[task.call] = "converting"
    [] task.kind = "handle"  ->
         tr[task.id].pc \in {"StartHookCalling", "StartHookReturned",
                             "EndHookCalling", "EndHookReturned"}

\* The step in which the holder of the host lock leaves with_gil.
LeaveWithGil ==
  \/ \E r \in Requests : body_stream_extract(r)
  \/ \E r \in Requests, p \in Pullers : anext_bytes(r, p)
  \/ \E t \in Handles :
       handle_start_call(t) \/ handle_start_merge(t) \/ handle_end_call(t)
         \/ handle_end_merge(t)

NoObserverNoHost(t) ==
  /\ gil # Some(HandleTask(t))
  /\ tr[t].ext_dict = None
  /\ tr[t].req_info = None
  /\ tr[t].end_data = None
  /\ tr[t].start_write = None /\ tr[t].end_write = None
  /\ tr[t].events \in {<<>>, <<"dispatch">>}
  /\ tr[t].pc \in {"Idle", "Dispatching", "Done"}
  /\ NewHandle(tr[t].request, tr[t].http_extensions) \in
       {NewHandle(q, e) : q \in TraceRequests, e \in InitialExtensions}

\* C21: with no observer the middleware is a pure pass-through: the host is
\* never entered, no extension map is materialized, dispatch runs once on the
\* unchanged context, and handle returns what dispatch returned, unmodified, on
\* success (the Response with the extension store it came with) as on failure.
C21_NoObserverIsPassThrough ==
  tracer = None =>
    \A t \in Handles :
      /\ NoObserverNoHost(t)
      /\ tr[t].pc = "Done" =>
           LET result == Unwrap(tr[t].result) IN
             /\ tr[t].events = <<"dispatch">>
             /\ Returned(t).ok = result.ok
             /\ ~result.ok => Returned(t) = [ok |-> FALSE, error |-> Unwrap(result.error)]
             /\ result.ok =>
                  /\ Returned(t).version = result.version
                  /\ Some(Returned(t).extensions) = result.extensions

\* The part of C21 the code keeps: the host is never entered, the context is
\* unchanged, and a failed dispatch is returned as it is; on success the Response
\* differs from the dispatched one by its extension store only.
NoObserverLeavesHostAlone ==
  tracer = None =>
    \A t \in Handles :
      /\ NoObserverNoHost(t)
      /\ tr[t].pc = "Done" =>
           LET result == Unwrap(tr[t].result) IN
             /\ tr[t].events = <<"dispatch">>
             /\ Returned(t).ok = result.ok
             /\ ~result.ok => Returned(t) = [ok |-> FALSE, error |-> Unwrap(result.error)]
             /\ result.ok => Returned(t).version = result.version

\* C22: permit conservation and single ownership.  Under a gate of N permits,
\* the permits available and the permits held add up to N in every state; a
\* request is issued at most one permit and returns it at most once; a permit
\* held has one owner, the request task or the one Response it was moved to,
\* never both; and the available count stays between 0 and N.
C22_PermitsAreConserved ==
  /\ Gated =>
       /\ permits + Outstanding = Capacity
       /\ permits >= 0 /\ permits <= Capacity
       /\ \A r \in Requests :
            (req[r].permit \/ resp[r].permit) <=> req[r].acquired = req[r].released + 1
  /\ ~Gated => permits = 0 /\ Outstanding = 0
  /\ \A r \in Requests :
       /\ ~(req[r].permit /\ resp[r].permit)
       /\ req[r].acquired <= 1
       /\ req[r].released <= req[r].acquired
       /\ resp[r].permit => resp[r].state = "live" /\ req[r].pc = "done"
       /\ req[r].permit => req[r].pc \in {"admitted", "executing", "extracting"}

\* C22 witness: under a cap of 1, the permit a closed Response returned was
\* issued to a request that had waited for it, and is now held by the Response
\* of that request.
C22_Witness_BothKindsOfOwner ==
  /\ Gated
  /\ Capacity = 1
  /\ \E r, q \in Requests :
       /\ req[r].released = 1
       /\ resp[r].closes >= 1
       /\ req[q].waited
       /\ resp[q].permit

\* The body cursor of Response r is attached: the Response still refers to it,
\* or a pull future that cloned the reference is in flight.
CursorAttached(r) ==
  resp[r].response # None \/ \E p \in Pullers : resp[r].pull[p] # "idle"

\* C23: under a gate, a Response whose body cursor is attached holds its
\* permit; hence at most N Responses have an attached cursor at any time.
C23_AttachedCursorHoldsPermit ==
  Gated =>
    /\ \A r \in Requests : CursorAttached(r) => resp[r].permit
    /\ Cardinality({r \in Requests : CursorAttached(r)}) <= Capacity

\* A write that leaves the dict with a key that is no str, or with a value no
\* ExtensionValue extracts.
Unconvertible(w) ==
  w.op = "set" /\ (w.key = NonStrKey \/ extract_value(w.value) = None)

\* The start hook of handle t has failed: the call or its awaitable raised, or
\* the dict it left has been found not to convert.
StartHookFailed(t) ==
  \/ tr[t].raised = Some("start")
  \/ /\ tr[t].start_write # None
     /\ tr[t].pc # "StartHookReturned"
     /\ Unconvertible(Unwrap(tr[t].start_write))

\* C24: when the start hook fails, the request ends in failure from there:
\* handle is over with a middleware failure, dispatch has not been invoked and
\* the end hook has not been called.
C24_StartHookFailureSkipsDispatch ==
  \A t \in Handles :
    StartHookFailed(t) =>
      /\ tr[t].pc = "Done"
      /\ ~Returned(t).ok
      /\ Returned(t).error \in {"on_request_start raised", "extensions_from_dict failed"}
      /\ ~DispatchRan(t)
      /\ tr[t].events = <<"start">>
      /\ tr[t].end_data = None
      /\ tr[t].end_write = None

\* C24 witness: the start hook left a value in the dict that does not convert,
\* and handle is over.
C24_Witness_StartDictUnconvertible ==
  \E t \in Handles :
    /\ tr[t].pc = "Done"
    /\ tr[t].raised = None
    /\ tr[t].start_write = Some([op |-> "set", key |-> "a", value |-> PyObject])

\* The Extensions of the request context when handle copies them (line 83).
RequestExtensions(t) ==
  IF tr[t].http_extensions = None THEN EmptyMap ELSE Unwrap(tr[t].http_extensions)

\* C25: the "http_version" entry of a successful Response's extension store is
\* the version the Transport reported for the response, whatever the hooks put
\* into the extensions map.
C25_HttpVersionIsTransportVersion ==
  \A t \in Handles :
    (tr[t].pc = "Done" /\ Returned(t).ok) =>
      Holds(Returned(t).extensions, "http_version",
            BytesValue(http_version_str(Unwrap(tr[t].result).version)))

\* The part of C25 the code keeps: the entry is the Transport's version unless
\* the request context holds an entry under "http_version", which then replaces it.
HttpVersionUnlessOverwritten ==
  \A t \in Handles :
    (tr[t].pc = "Done" /\ Returned(t).ok) =>
      IF "http_version" \in DOMAIN RequestExtensions(t)
        THEN Holds(Returned(t).extensions, "http_version",
                   RequestExtensions(t)["http_version"])
        ELSE Holds(Returned(t).extensions, "http_version",
                   BytesValue(http_version_str(Unwrap(tr[t].result).version)))

====
